---- MODULE Spec2Model ----
(***************************************************************************)
(* Model of obfuscator_cli/src/project_mode.rs: process_project and the    *)
(* steps it drives (copy_full_structure, transform_rust_files,             *)
(* patch_cargo_toml, ensure_rustfmt_installed, format_rust_files).         *)
(*                                                                         *)
(* The file system is two trees, "input" and "output".  A tree holds the   *)
(* .rs files and the Cargo.toml files in the order WalkDir yields them.    *)
(* process_file and write_transformed live in other modules of the crate   *)
(* (crate::processor, crate::file_io); they are modelled at their          *)
(* interface.                                                              *)
(***************************************************************************)
EXTENDS Naturals, Sequences, FiniteSets

\* Largest number of .rs files in the project tree.
MaxFiles == 2
\* Largest number of Cargo.toml files in the project tree.
MaxManifests == 2

VARIABLES
    dry_run,      \* process_project argument
    format,       \* process_project argument
    diff_ctx,     \* process_project argument: "None" or "Some"
    verbose,      \* process_project argument
    fs,           \* fs[tree].rs, fs[tree].toml: contents in walk order
    orig,         \* the file system as it was before the run
    pc,           \* the step process_project is in
    status,       \* status[step]: "pending", "running", "ok", "err"
    result,       \* what process_project returned: "none", "Ok", "Err"
    idx,          \* position of the running loop in its walk
    procResult,   \* procResult[i]: what process_file returned for .rs file i
    verboseLine,  \* verboseLine[i]: the line printed for file i in verbose mode
    beforeKept,   \* .rs files process_file returned the original text of
    diffShown,    \* .rs files a unified diff was printed for
    wrote,        \* wrote[i]: "no", or how write_transformed was called for i
    transformFailure, \* the call that made transform_rust_files return Err
    patchVisited, \* manifests the patch loop has read
    skipReported, \* manifests reported as virtual
    tomlWritten,  \* manifests written by fs::write
    patchFailedAt,\* index of the manifest that made patch_cargo_toml fail, or 0
    fmtProbed,    \* rustfmt --version: "no" (not run), "ok", "err"
    fmtInvoked,   \* .rs files rustfmt was started on by format_rust_files
    fmtWarned,    \* .rs files a "Failed to format" warning was printed for
    run,          \* number of the patch_cargo_toml run (patch-only harness)
    afterFirst    \* manifests as the first patch_cargo_toml run left them

inputs == <<dry_run, format, diff_ctx, verbose, orig>>
xformVars == <<procResult, verboseLine, beforeKept, diffShown, wrote,
              transformFailure>>
patchVars == <<patchVisited, skipReported, tomlWritten, patchFailedAt>>
fmtVars == <<fmtProbed, fmtInvoked, fmtWarned>>
harnessVars == <<run, afterFirst>>
vars == <<inputs, fs, pc, status, result, idx, xformVars, patchVars, fmtVars,
          harnessVars>>

Steps == {"copy", "transform", "patch", "ensure_rustfmt", "format"}
Trees == {"input", "output"}

-----------------------------------------------------------------------------
\* Source text of a .rs file.

RsTexts == {"orig", "xf", "orig_fmt", "xf_fmt"}

\* What rustfmt makes of a text it accepts.
Fmt(text) ==
    CASE text = "orig" -> "orig_fmt"
      [] text = "xf"   -> "xf_fmt"
      [] OTHER         -> text

-----------------------------------------------------------------------------
\* Cargo.toml files.

DepKeys == {"rust_code_obfuscator", "cryptify"}
Absent == "-"
NoEntries == [k \in DepKeys |-> Absent]

\* value("0.2.10") and value("3.1.1")
RequiredVersion(k) == IF k = "rust_code_obfuscator" THEN "0.2.10" ELSE "3.1.1"

\* The [dependencies] item of a document: absent, a table, or something else
\* (an inline table, a plain value, an array of tables).
DepsItems ==
    {[kind |-> "absent", entries |-> NoEntries],
     [kind |-> "other", entries |-> NoEntries]}
    \cup {[kind |-> "table", entries |-> e] : e \in [DepKeys -> {Absent, "old"}]}

Documents == [package : BOOLEAN, deps : DepsItems]

\* File text: well-formed TOML carrying a document, or text toml_edit rejects.
Garbage == [wellformed |-> FALSE,
            doc |-> [package |-> FALSE,
                     deps |-> [kind |-> "absent", entries |-> NoEntries]]]
TomlTexts == {Garbage} \cup {[wellformed |-> TRUE, doc |-> d] : d \in Documents}

\* content.parse::<DocumentMut>()
ParseToml(text) ==
    IF text.wellformed THEN [ok |-> TRUE, doc |-> text.doc]
    ELSE [ok |-> FALSE, doc |-> Garbage.doc]

\* doc.to_string()
DocToString(doc) == [wellformed |-> TRUE, doc |-> doc]

\* A Cargo.toml on disk: its permissions and its text.
Perms == {"rw", "ro", "none"}

ManifestFiles ==
    {[perm |-> "none", text |-> Garbage]}
    \cup [perm : {"rw", "ro"}, text : TomlTexts]

\* The manifests a whole-project run is started on: one that cannot be
\* parsed, a virtual one, and a package manifest with one of the two entries.
ProjectManifestFiles ==
    {[perm |-> "rw", text |-> Garbage],
     [perm |-> "rw", text |-> DocToString([package |-> FALSE,
        deps |-> [kind |-> "absent", entries |-> NoEntries]])],
     [perm |-> "rw", text |-> DocToString([package |-> TRUE,
        deps |-> [kind |-> "table",
                  entries |-> [NoEntries EXCEPT !["cryptify"] = "old"]]])]}

SeqsUpTo(S, n) == UNION {[1..k -> S] : k \in 0..n}

-----------------------------------------------------------------------------
\* process_project

\* The tree transform_rust_files walks: the input in a dry run (line 23),
\* the copy otherwise (line 28).
Root == IF dry_run THEN "input" ELSE "output"

\* The format flag transform_rust_files is called with (lines 23 and 28).
XformFormat == IF dry_run THEN FALSE ELSE format

\* process_project without the `?` after its calls.
AfterStepIgnoringErr(step, st, dry, fmt) ==
    CASE step = "copy"             -> "transform"
      [] step = "transform"        -> IF dry THEN "done" ELSE "patch"
      [] step = "patch"            -> IF fmt THEN "ensure_rustfmt" ELSE "done"
      [] step = "ensure_rustfmt"   -> "format"
      [] OTHER                     -> "done"

\* The step that follows `step` once it returned `st` ("ok" or "err"); every
\* call in process_project is followed by `?`.
AfterStep(step, st, dry, fmt) ==
    CASE st = "err"                -> "done"
      [] step = "copy"             -> "transform"
      [] step = "transform"        -> IF dry THEN "done" ELSE "patch"
      [] step = "patch"            -> IF fmt THEN "ensure_rustfmt" ELSE "done"
      [] step = "ensure_rustfmt"   -> "format"
      [] OTHER                     -> "done"

\* The value process_project returns when `step` returned `st` and no step
\* follows.
ReturnValue(st) == IF st = "err" THEN "Err" ELSE "Ok"

ProcessProjectEntry ==
    /\ pc = "start"
    /\ pc' = IF dry_run THEN "transform" ELSE "copy"
    /\ status' = [status EXCEPT ![pc'] = "running"]
    /\ idx' = 1
    /\ UNCHANGED <<inputs, fs, result, xformVars, patchVars, fmtVars, harnessVars>>

\* The step in progress has returned; process_project goes on or returns.
ProcessProjectContinue ==
    /\ pc \in Steps
    /\ status[pc] \in {"ok", "err"}
    /\ pc' = AfterStep(pc, status[pc], dry_run, format)
    /\ status' = IF pc' \in Steps THEN [status EXCEPT ![pc'] = "running"] ELSE status
    /\ result' = IF pc' = "done" THEN ReturnValue(status[pc]) ELSE result
    /\ idx' = 1
    /\ UNCHANGED <<inputs, fs, xformVars, patchVars, fmtVars, harnessVars>>

\* fs_extra::dir::copy either copies the whole tree or fails.
copy_full_structure ==
    /\ pc = "copy"
    /\ status["copy"] = "running"
    /\ \E ok \in BOOLEAN :
        /\ fs' = IF ok THEN [fs EXCEPT !["output"] = fs["input"]] ELSE fs
        /\ status' = [status EXCEPT !["copy"] = IF ok THEN "ok" ELSE "err"]
    /\ UNCHANGED <<inputs, pc, result, idx, xformVars, patchVars, fmtVars, harnessVars>>

-----------------------------------------------------------------------------
\* transform_rust_files

\* What process_file returns: Err, or Ok((transformed, changed, before_opt)).
ProcessFileResults ==
    {[ok |-> FALSE, changed |-> FALSE, before |-> "None"]}
    \cup [ok : {TRUE}, changed : BOOLEAN, before : {"None", "Some"}]

\* The transformed text process_file returns for a file holding `text`.
Transformed(text, changed) == IF changed THEN "xf" ELSE text

\* What write_transformed does: fails, writes the text, or writes it and has
\* it formatted (only when called with format = true).
WriteResults(fmt) == {"err", "plain"} \cup (IF fmt THEN {"formatted"} ELSE {})

\* The diff printed outside `if changed`.
ShouldRenderDiffUnguarded(changed, ctx, before) ==
    ctx # "None" /\ before # "None"

\* Lines 72-74: the diff is printed inside `if changed`, when a context radius
\* was given and process_file kept the original text.
ShouldRenderDiff(changed, ctx, before) ==
    changed /\ ctx # "None" /\ before # "None"

\* The write without the `if !dry_run` guard.
ShouldWriteInDryRun(changed, dry) == changed

\* The write without the `if changed` guard.
ShouldWriteUnchanged(changed, dry) == ~dry

\* Lines 72 and 81: write_transformed is called inside `if changed`,
\* `if !dry_run`.
ShouldWrite(changed, dry) == changed /\ ~dry

\* One iteration of the loop of lines 59-86, on the file at position idx.
TransformFile ==
    /\ pc = "transform"
    /\ status["transform"] = "running"
    /\ idx <= Len(fs[Root].rs)
    /\ \E r \in ProcessFileResults, w \in WriteResults(XformFormat) :
        LET text == fs[Root].rs[idx]
            out == Transformed(text, r.changed)
            doWrite == r.ok /\ ShouldWrite(r.changed, dry_run)
            failure == IF ~r.ok THEN "process_file"
                       ELSE IF doWrite /\ w = "err" THEN "write_transformed"
                       ELSE "none"
        IN  /\ procResult' = [procResult EXCEPT ![idx] =
                IF ~r.ok THEN "err" ELSE IF r.changed THEN "changed" ELSE "unchanged"]
            /\ verboseLine' = IF r.ok /\ verbose
                              THEN [verboseLine EXCEPT ![idx] =
                                      IF r.changed THEN "[CHANGED]" ELSE "[SKIP]"]
                              ELSE verboseLine
            /\ beforeKept' = IF r.ok /\ r.before # "None"
                             THEN beforeKept \cup {idx} ELSE beforeKept
            /\ diffShown' = IF r.ok /\ ShouldRenderDiff(r.changed, diff_ctx, r.before)
                            THEN diffShown \cup {idx} ELSE diffShown
            /\ wrote' = IF doWrite THEN [wrote EXCEPT ![idx] = w] ELSE wrote
            /\ fs' = IF doWrite /\ w # "err"
                     THEN [fs EXCEPT ![Root].rs[idx] =
                             IF w = "formatted" THEN Fmt(out) ELSE out]
                     ELSE fs
            /\ transformFailure' = failure
            /\ status' = IF failure = "none" THEN status
                         ELSE [status EXCEPT !["transform"] = "err"]
            /\ idx' = IF failure = "none" THEN idx + 1 ELSE idx
    /\ UNCHANGED <<inputs, pc, result, patchVars, fmtVars, harnessVars>>

\* Line 87: the walk is over, Ok(()).
TransformReturn ==
    /\ pc = "transform"
    /\ status["transform"] = "running"
    /\ idx > Len(fs[Root].rs)
    /\ status' = [status EXCEPT !["transform"] = "ok"]
    /\ UNCHANGED <<inputs, fs, pc, result, idx, xformVars, patchVars, fmtVars,
                   harnessVars>>

-----------------------------------------------------------------------------
\* patch_cargo_toml

\* The patch without the virtual-manifest check.
IsVirtualManifestNever(doc) == FALSE

\* Line 102: a manifest without a top-level `package` key is virtual.
IsVirtualManifest(doc) == ~doc.package

\* Lines 107-109: an absent `dependencies` item becomes an empty table.
WithDepsTable(doc) ==
    IF doc.deps.kind = "absent"
    THEN [doc EXCEPT !.deps = [kind |-> "table", entries |-> NoEntries]]
    ELSE doc

\* The inserts without the contains_key checks.
PatchedEntriesOverwrite(entries) ==
    [k \in DepKeys |-> RequiredVersion(k)]

\* Lines 116-121: each required key is inserted only if the table lacks it.
PatchedEntries(entries) ==
    [k \in DepKeys |-> IF entries[k] = Absent THEN RequiredVersion(k) ELSE entries[k]]

\* Lines 98-123 on one Cargo.toml: how the iteration ends and the text the
\* file holds afterwards.
PatchOne(file) ==
    LET parsed == ParseToml(file.text)
        doc == WithDepsTable(parsed.doc)
        patched == [doc EXCEPT !.deps.entries = PatchedEntries(doc.deps.entries)]
    IN  IF file.perm = "none" THEN [end |-> "read_err", text |-> file.text]
        ELSE IF ~parsed.ok THEN [end |-> "parse_err", text |-> file.text]
        ELSE IF IsVirtualManifest(parsed.doc) THEN [end |-> "skip", text |-> file.text]
        ELSE IF doc.deps.kind # "table" THEN [end |-> "deps_err", text |-> file.text]
        ELSE IF file.perm = "ro" THEN [end |-> "write_err", text |-> file.text]
        ELSE [end |-> "patched", text |-> DocToString(patched)]

\* Parse and table errors logged instead of returned.
IsFatalOnlyIo(end) == end \in {"read_err", "write_err"}

\* The ends that leave the function through `?` (lines 98, 99, 113, 123).
IsFatal(end) == end \in {"read_err", "parse_err", "deps_err", "write_err"}

\* One iteration of the loop of lines 91-125, on the manifest at position idx.
PatchManifest ==
    /\ pc = "patch"
    /\ status["patch"] = "running"
    /\ idx <= Len(fs["output"].toml)
    /\ LET one == PatchOne(fs["output"].toml[idx])
       IN  /\ patchVisited' = patchVisited \cup {idx}
           /\ skipReported' = IF one.end = "skip" THEN skipReported \cup {idx}
                              ELSE skipReported
           /\ tomlWritten' = IF one.end = "patched" THEN tomlWritten \cup {idx}
                             ELSE tomlWritten
           /\ fs' = [fs EXCEPT !["output"].toml[idx].text = one.text]
           /\ patchFailedAt' = IF IsFatal(one.end) THEN idx ELSE patchFailedAt
           /\ status' = IF IsFatal(one.end)
                        THEN [status EXCEPT !["patch"] = "err"] ELSE status
           /\ idx' = IF IsFatal(one.end) THEN idx ELSE idx + 1
    /\ UNCHANGED <<inputs, pc, result, xformVars, fmtVars, harnessVars>>

\* Line 127: the walk is over, Ok(()).
PatchReturn ==
    /\ pc = "patch"
    /\ status["patch"] = "running"
    /\ idx > Len(fs["output"].toml)
    /\ status' = [status EXCEPT !["patch"] = "ok"]
    /\ UNCHANGED <<inputs, fs, pc, result, idx, xformVars, patchVars, fmtVars,
                   harnessVars>>

\* patch_cargo_toml is called again on the tree the first call left.
PatchAgain ==
    /\ pc = "patch"
    /\ status["patch"] \in {"ok", "err"}
    /\ run = 1
    /\ run' = 2
    /\ afterFirst' = fs["output"].toml
    /\ status' = [status EXCEPT !["patch"] = "running"]
    /\ idx' = 1
    /\ patchVisited' = {}
    /\ skipReported' = {}
    /\ tomlWritten' = {}
    /\ patchFailedAt' = 0
    /\ UNCHANGED <<inputs, fs, pc, result, xformVars, fmtVars>>

-----------------------------------------------------------------------------
\* ensure_rustfmt_installed and format_rust_files

\* Lines 131-142: `rustfmt --version` either starts or does not.
ensure_rustfmt_installed ==
    /\ pc = "ensure_rustfmt"
    /\ status["ensure_rustfmt"] = "running"
    /\ \E started \in BOOLEAN :
        /\ fmtProbed' = IF started THEN "ok" ELSE "err"
        /\ status' = [status EXCEPT !["ensure_rustfmt"] =
                        IF started THEN "ok" ELSE "err"]
    /\ UNCHANGED <<inputs, fs, pc, result, idx, xformVars, patchVars, fmtInvoked,
                   fmtWarned, harnessVars>>

\* The spawn error returned with `?` instead of printed.
SpawnFailurePropagated(started) == ~started

\* Lines 156-158: a rustfmt that could not be started is only warned about.
SpawnFailureIsFatal(started) == FALSE

\* One iteration of the loop of lines 146-159: rustfmt is started on the file
\* at position idx; once started it rewrites the file or rejects it.
FormatFile ==
    /\ pc = "format"
    /\ status["format"] = "running"
    /\ idx <= Len(fs["output"].rs)
    /\ \E started \in BOOLEAN, accepted \in BOOLEAN :
        /\ fmtInvoked' = fmtInvoked \cup {idx}
        /\ fmtWarned' = IF started THEN fmtWarned ELSE fmtWarned \cup {idx}
        /\ fs' = IF started /\ accepted
                 THEN [fs EXCEPT !["output"].rs[idx] = Fmt(@)] ELSE fs
        /\ status' = IF SpawnFailureIsFatal(started)
                     THEN [status EXCEPT !["format"] = "err"] ELSE status
        /\ idx' = IF SpawnFailureIsFatal(started) THEN idx ELSE idx + 1
    /\ UNCHANGED <<inputs, pc, result, xformVars, patchVars, fmtProbed, harnessVars>>

\* Line 160: the walk is over, Ok(()).
FormatReturn ==
    /\ pc = "format"
    /\ status["format"] = "running"
    /\ idx > Len(fs["output"].rs)
    /\ status' = [status EXCEPT !["format"] = "ok"]
    /\ UNCHANGED <<inputs, fs, pc, result, idx, xformVars, patchVars, fmtVars,
                   harnessVars>>

-----------------------------------------------------------------------------
\* Specifications

EmptyTree == [rs |-> <<>>, toml |-> <<>>]

InitRun(tree, entry, r) ==
    /\ orig = fs
    /\ pc = entry
    /\ status = [s \in Steps |-> IF s = entry THEN "running" ELSE "pending"]
    /\ result = "none"
    /\ idx = 1
    /\ procResult = [i \in 1..Len(tree.rs) |-> "unvisited"]
    /\ verboseLine = [i \in 1..Len(tree.rs) |-> ""]
    /\ beforeKept = {}
    /\ diffShown = {}
    /\ wrote = [i \in 1..Len(tree.rs) |-> "no"]
    /\ transformFailure = "none"
    /\ patchVisited = {}
    /\ skipReported = {}
    /\ tomlWritten = {}
    /\ patchFailedAt = 0
    /\ fmtProbed = "no"
    /\ fmtInvoked = {}
    /\ fmtWarned = {}
    /\ run = r
    /\ afterFirst = <<>>

\* process_project is called on an input tree; the output location is empty.
Init ==
    /\ dry_run \in BOOLEAN
    /\ format \in BOOLEAN
    /\ diff_ctx \in {"None", "Some"}
    /\ verbose \in BOOLEAN
    /\ \E n \in 0..MaxFiles, tomls \in SeqsUpTo(ProjectManifestFiles, MaxManifests) :
        LET tree == [rs |-> [i \in 1..n |-> "orig"], toml |-> tomls]
        IN  /\ fs = [input |-> tree, output |-> EmptyTree]
            /\ InitRun(tree, "start", 0)

Next ==
    \/ ProcessProjectEntry
    \/ copy_full_structure
    \/ TransformFile
    \/ TransformReturn
    \/ PatchManifest
    \/ PatchReturn
    \/ ensure_rustfmt_installed
    \/ FormatFile
    \/ FormatReturn
    \/ ProcessProjectContinue

Spec == Init /\ [][Next]_vars

\* patch_cargo_toml is called twice in a row on a tree of manifests.
InitPatch ==
    /\ dry_run = FALSE
    /\ format = FALSE
    /\ diff_ctx = "None"
    /\ verbose = FALSE
    /\ \E tomls \in SeqsUpTo(ManifestFiles, MaxManifests) :
        LET tree == [rs |-> <<>>, toml |-> tomls]
        IN  /\ fs = [input |-> tree, output |-> tree]
            /\ InitRun(tree, "patch", 1)

NextPatch ==
    \/ PatchManifest
    \/ PatchReturn
    \/ PatchAgain

SpecPatch == InitPatch /\ [][NextPatch]_vars

-----------------------------------------------------------------------------
\* Properties

RsIndex == 1..Len(orig["input"].rs)
TomlIndex == 1..Len(orig["input"].toml)

\* The manifest at position i as it was before the run.
OrigToml(i) == orig["input"].toml[i]

\* process_file has been called on file i (it reads the file it is given).
Visited(i) == procResult[i] # "unvisited"

TypeOK ==
    /\ dry_run \in BOOLEAN /\ format \in BOOLEAN /\ verbose \in BOOLEAN
    /\ diff_ctx \in {"None", "Some"}
    /\ pc \in Steps \cup {"start", "done"}
    /\ status \in [Steps -> {"pending", "running", "ok", "err"}]
    /\ result \in {"none", "Ok", "Err"}
    /\ \A t \in Trees :
        /\ \A i \in 1..Len(fs[t].rs) : fs[t].rs[i] \in RsTexts
        /\ \A i \in 1..Len(fs[t].toml) :
            /\ fs[t].toml[i].perm \in Perms
            /\ fs[t].toml[i].text.wellformed \in BOOLEAN
            /\ fs[t].toml[i].text.doc.package \in BOOLEAN
            /\ fs[t].toml[i].text.doc.deps.kind \in {"absent", "table", "other"}
            /\ fs[t].toml[i].text.doc.deps.entries \in
                    [DepKeys -> {Absent, "old", "0.2.10", "3.1.1"}]
    /\ procResult \in [RsIndex -> {"unvisited", "err", "changed", "unchanged"}]
    /\ wrote \in [RsIndex -> {"no", "err", "plain", "formatted"}]
    /\ diffShown \subseteq RsIndex /\ beforeKept \subseteq RsIndex
    /\ patchVisited \subseteq TomlIndex /\ tomlWritten \subseteq patchVisited
    /\ skipReported \subseteq patchVisited
    /\ patchFailedAt \in 0..MaxManifests
    /\ fmtProbed \in {"no", "ok", "err"}
    /\ fmtWarned \subseteq fmtInvoked /\ fmtInvoked \subseteq RsIndex
    /\ run \in 0..2

\* C1: a failure of process_file on one .rs file is not fatal: the file is
\* left as it was, transform_rust_files does not fail because of it, and once
\* transform_rust_files has returned every file of the walk was processed.
C1_ProcessFileFailureNotFatal ==
    \A i \in RsIndex :
        procResult[i] = "err" =>
            /\ fs[Root].rs[i] = orig["input"].rs[i]
            /\ transformFailure # "process_file"
            /\ (status["transform"] \in {"ok", "err"} => \A j \in RsIndex : Visited(j))

\* C2: no file is transformed or written while another file of the project
\* has not been read yet.
C2_AllReadBeforeAnyRewrite ==
    \A i \in RsIndex :
        (procResult[i] \in {"changed", "unchanged"} \/ wrote[i] # "no") =>
            \A j \in RsIndex : Visited(j)

\* C3: a second run of patch_cargo_toml leaves every manifest as the first run
\* left it, and a rust_code_obfuscator or cryptify entry that was there before
\* patching keeps its value.
C3_PatchIdempotent ==
    /\ run = 2 => fs["output"].toml = afterFirst
    /\ \A i \in TomlIndex, k \in DepKeys :
        LET before == OrigToml(i).text
        IN  (before.wellformed /\ before.doc.deps.kind = "table"
                /\ before.doc.deps.entries[k] # Absent) =>
            fs["output"].toml[i].text.doc.deps.entries[k] = before.doc.deps.entries[k]

\* Both runs are over, and a manifest that had one of the two entries and
\* lacked the other went through the inserts in the second run too.
C3_Witness ==
    /\ run = 2
    /\ status["patch"] = "ok"
    /\ \E i \in tomlWritten, k \in DepKeys, m \in DepKeys :
        /\ OrigToml(i).text.doc.deps.entries[k] = "old"
        /\ OrigToml(i).text.doc.deps.entries[m] = Absent
        /\ fs["output"].toml[i].text.doc.deps.entries[m] = RequiredVersion(m)

\* A readable, well-formed manifest without a package key.
IsVirtualFile(f) == f.perm # "none" /\ f.text.wellformed /\ ~f.text.doc.package

\* C4: a manifest without a package section is reported as skipped and left
\* untouched (no dependencies table, no write), and the loop goes on to the
\* remaining manifests.
C4_VirtualManifestSkipped ==
    \A i \in patchVisited :
        IsVirtualFile(OrigToml(i)) =>
            /\ i \in skipReported
            /\ i \notin tomlWritten
            /\ fs["output"].toml[i] = OrigToml(i)
            /\ patchFailedAt # i
            /\ idx > i
            /\ (status["patch"] = "ok" => patchVisited = TomlIndex)

\* A virtual manifest was skipped and a manifest after it was patched.
C4_Witness ==
    \E i \in skipReported, j \in tomlWritten :
        /\ i < j
        /\ IsVirtualFile(OrigToml(i))
        /\ fs["output"].toml[j] # OrigToml(j)

\* Formatting was requested in a real run whose transform and patch steps
\* succeeded.
FormatRequestedAfterSuccess ==
    format /\ ~dry_run /\ status["transform"] = "ok" /\ status["patch"] = "ok"

C6_DryRunLeavesFsUnchanged ==
    dry_run =>
        /\ fs = orig
        /\ \A i \in RsIndex : wrote[i] = "no"
        /\ \A s \in Steps \ {"transform"} : status[s] = "pending"
        /\ patchVisited = {} /\ tomlWritten = {}
        /\ fmtProbed = "no" /\ fmtInvoked = {}

\* A dry run returned Ok after process_file reported a file as changed, with
\* formatting requested and a manifest in the tree.
C6_Witness ==
    /\ dry_run /\ format
    /\ pc = "done" /\ result = "Ok"
    /\ \E i \in RsIndex : procResult[i] = "changed"
    /\ TomlIndex # {}

\* C7: a diff is rendered only for a file process_file reported as changed.
C7_DiffOnlyWhenChanged ==
    \A i \in diffShown : procResult[i] = "changed"

\* With a context radius given, an unchanged file whose original text was kept
\* got no diff, and a changed one did.
C7_Witness ==
    /\ diff_ctx = "Some"
    /\ \E i \in beforeKept \ diffShown : procResult[i] = "unchanged"
    /\ \E j \in diffShown : procResult[j] = "changed"

StepOrder(s) ==
    CASE s = "copy" -> 1
      [] s = "transform" -> 2
      [] s = "patch" -> 3
      [] s = "ensure_rustfmt" -> 4
      [] OTHER -> 5

\* C8: in a real run the copy completes before any file is transformed, the
\* patch starts only after every .rs file was processed (and written when
\* changed), the formatter starts only after the patch, and a failed step
\* keeps every later step from running.
C8_StepsInOrder ==
    ~dry_run =>
        /\ ((status["transform"] # "pending" \/ \E i \in RsIndex : Visited(i)) =>
                status["copy"] = "ok" /\ Len(fs["output"].rs) = Len(orig["input"].rs))
        /\ ((status["patch"] # "pending" \/ patchVisited # {}) =>
                /\ status["transform"] = "ok"
                /\ \A i \in RsIndex :
                    /\ procResult[i] \in {"changed", "unchanged"}
                    /\ (procResult[i] = "changed" => wrote[i] \in {"plain", "formatted"}))
        /\ ((status["ensure_rustfmt"] # "pending" \/ fmtProbed # "no") =>
                status["patch"] = "ok")
        /\ ((status["format"] # "pending" \/ fmtInvoked # {}) =>
                status["patch"] = "ok" /\ status["ensure_rustfmt"] = "ok")
        /\ \A s \in Steps :
            status[s] = "err" =>
                /\ \A t \in Steps : StepOrder(t) > StepOrder(s) => status[t] = "pending"
                /\ pc \in {s, "done"}
                /\ (pc = "done" => result = "Err")

\* A real run went through copy, transform (with a write), patch (with a
\* write) and the formatter, and returned Ok.
C8_Witness ==
    /\ ~dry_run
    /\ pc = "done" /\ result = "Ok"
    /\ \A s \in Steps : status[s] = "ok"
    /\ \E i \in RsIndex : wrote[i] = "plain"
    /\ tomlWritten # {}
    /\ fmtInvoked # {}

\* A readable manifest toml_edit rejects, or whose dependencies item is not a
\* table.
IsMalformedFile(f) ==
    f.perm # "none" /\ (~f.text.wellformed \/ f.text.doc.deps.kind = "other")

\* The patch step halted at manifest i: an error is returned, manifest i is
\* not written, and no manifest after i is visited or changed.
PatchHaltedAt(i) ==
    /\ status["patch"] = "err"
    /\ patchFailedAt = i
    /\ i \notin tomlWritten
    /\ fs["output"].toml[i] = OrigToml(i)
    /\ \A j \in TomlIndex :
        j > i => j \notin patchVisited /\ fs["output"].toml[j] = OrigToml(j)

\* C9 as stated: a manifest that cannot be parsed, or whose dependencies entry
\* is not a table, halts the patch step.
C9_MalformedManifestHalts ==
    \A i \in patchVisited : IsMalformedFile(OrigToml(i)) => PatchHaltedAt(i)

\* C9 amended: a manifest that cannot be parsed, or that has a package section
\* and a dependencies entry that is not a table, halts the patch step.
C9_MalformedPackageManifestHalts ==
    \A i \in patchVisited :
        (IsMalformedFile(OrigToml(i)) /\ ~IsVirtualFile(OrigToml(i))) => PatchHaltedAt(i)

\* The patch step halted at a package manifest whose dependencies entry is not
\* a table, before a manifest it could have patched.
C9_Witness ==
    \E i \in patchVisited, j \in TomlIndex :
        /\ i < j
        /\ OrigToml(i).text.wellformed
        /\ OrigToml(i).text.doc.package
        /\ OrigToml(i).text.doc.deps.kind = "other"
        /\ PatchHaltedAt(i)
        /\ PatchOne(OrigToml(j)).end = "patched"

\* C10: write_transformed is called for a file exactly when process_file
\* reported it changed and the run is not a dry run; an unchanged file keeps
\* its text; and when the loop goes on to the next file a changed file holds
\* its transformed text.
C10_WriteIffChangedAndNotDry ==
    \A i \in RsIndex :
        /\ (wrote[i] # "no" <=> (procResult[i] = "changed" /\ ~dry_run))
        /\ (procResult[i] = "unchanged" /\ pc = "transform" =>
                fs[Root].rs[i] = orig["input"].rs[i])
        /\ ((procResult[i] = "changed" /\ ~dry_run
                /\ (\E j \in RsIndex : j > i /\ Visited(j))) =>
                /\ wrote[i] \in {"plain", "formatted"}
                /\ fs["output"].rs[i] \in {"xf", "xf_fmt"})
        /\ ((wrote[i] = "plain" /\ pc = "transform") => fs["output"].rs[i] = "xf")

\* In a real run a changed file was written, and the file after it, reported
\* unchanged, was not.
C10_Witness ==
    /\ ~dry_run
    /\ \E i \in RsIndex, j \in RsIndex :
        /\ i < j
        /\ procResult[i] = "changed" /\ wrote[i] = "plain" /\ fs["output"].rs[i] = "xf"
        /\ procResult[j] = "unchanged" /\ wrote[j] = "no" /\ fs["output"].rs[j] = "orig"

====
